---------------------------- MODULE Spec2Model ----------------------------
(***************************************************************************)
(* A model of package struccy (struccy.go): the access expression          *)
(* evaluator IsFieldAccessAllowed and the structural operations built on   *)
(* it (IsAllowedToSetField, SetField, FilterStructTo, MergeStructUpdateTo).*)
(*                                                                         *)
(* Strings are sequences of symbols.  The symbols "," "!" and "*" are the  *)
(* three characters the code treats specially; every other symbol stands   *)
(* for a run of ordinary characters (a role name), which the code only     *)
(* ever compares for equality as part of a whole string.                   *)
(*                                                                         *)
(* Go types are sequences of type constructors, outermost first:           *)
(* <<"ptr","slice","string">> is *[]string.  A value is its payload: a     *)
(* number, a string, a boolean, a sequence of payloads for a slice (the    *)
(* nil slice is <<>>), and for a pointer <<>> (nil) or <<p>> (a pointer to *)
(* payload p).  Pointers are modelled by what they point to; aliasing      *)
(* between the structs of one call is not represented.                     *)
(***************************************************************************)
EXTENDS Integers, Sequences, FiniteSets, TLC

VARIABLES
    pc,     \* "ready" before the call, "done" after it has returned
    call,   \* the arguments the caller passes, as they are before the call
    ret     \* the function called, what it returned, and the structs it wrote

vars == <<pc, call, ret>>

\* ret before any call
NoRet == [fn |-> "none"]

-----------------------------------------------------------------------------
(* Bounds of the model.                                                    *)

\* longest access expression, in symbols
MaxTagLen == 4
\* longest caller role list
MaxRoles == 2

-----------------------------------------------------------------------------
(* Strings.                                                                *)

\* the symbols an access expression is made of
TagAlphabet == {"admin", "user", "!", ",", "*"}

\* all strings over alphabet A of length at most n
Strs(A, n) == UNION {[1..k -> A] : k \in 0..n}

\* all lists of at most n elements of S
Lists(S, n) == UNION {[1..k -> S] : k \in 0..n}

\* the role strings a caller may present: plain names, the empty string,
\* and names that contain one of the special characters
RoleStrs == {<<>>, <<"admin">>, <<"user">>, <<"!", "user">>, <<"*">>}

RECURSIVE SplitFrom(_, _, _)
\* strings.Split, scanning s with the current piece cur
SplitFrom(s, sep, cur) ==
    IF s = <<>> THEN <<cur>>
    ELSE IF Head(s) = sep THEN <<cur>> \o SplitFrom(Tail(s), sep, <<>>)
    ELSE SplitFrom(Tail(s), sep, Append(cur, Head(s)))

\* strings.Split(s, sep) for a one-character separator
Split(s, sep) == SplitFrom(s, sep, <<>>)

\* strings.HasPrefix(s, p) for a one-character prefix
HasPrefix(s, p) == s /= <<>> /\ Head(s) = p

\* strings.TrimPrefix(s, p) for a one-character prefix
TrimPrefix(s, p) == IF HasPrefix(s, p) THEN Tail(s) ELSE s

-----------------------------------------------------------------------------
(* IsFieldAccessAllowed, struccy.go 651-685.                               *)

RECURSIVE TaggedRolesLoopNoVeto(_, _, _)
\* TaggedRolesLoop with the veto dropped: a negated token that names the
\* role only sets the flag
TaggedRolesLoopNoVeto(role, taggedRoles, finallyAllowed) ==
    IF taggedRoles = <<>> THEN [done |-> FALSE, finallyAllowed |-> finallyAllowed]
    ELSE LET taggedRole == Head(taggedRoles) IN
         IF role = taggedRole \/ HasPrefix(taggedRole, "!")
         THEN TaggedRolesLoopNoVeto(role, Tail(taggedRoles), TRUE)
         ELSE TaggedRolesLoopNoVeto(role, Tail(taggedRoles), finallyAllowed)

RECURSIVE TaggedRolesLoop(_, _, _)
\* the inner loop over taggedRoles for one role; done is TRUE when the
\* loop left the function by "return false"
TaggedRolesLoop(role, taggedRoles, finallyAllowed) ==
    IF taggedRoles = <<>> THEN [done |-> FALSE, finallyAllowed |-> finallyAllowed]
    ELSE LET taggedRole == Head(taggedRoles) IN
         IF role = taggedRole
         THEN TaggedRolesLoop(role, Tail(taggedRoles), TRUE)
         ELSE IF HasPrefix(taggedRole, "!")
              THEN IF role = TrimPrefix(taggedRole, "!")
                   THEN [done |-> TRUE, finallyAllowed |-> TRUE]
                   ELSE TaggedRolesLoop(role, Tail(taggedRoles), TRUE)
              ELSE TaggedRolesLoop(role, Tail(taggedRoles), finallyAllowed)

\* RolesLoop looking at the first role only
RolesLoopFirstRoleOnly(rs, taggedRoles, finallyAllowed) ==
    IF rs = <<>> THEN finallyAllowed
    ELSE LET r == TaggedRolesLoop(Head(rs), taggedRoles, finallyAllowed) IN
         IF r.done THEN FALSE ELSE r.finallyAllowed

RECURSIVE RolesLoop(_, _, _)
\* the outer loop over roles; the value is the function's result
RolesLoop(rs, taggedRoles, finallyAllowed) ==
    IF rs = <<>> THEN finallyAllowed
    ELSE LET r == TaggedRolesLoop(Head(rs), taggedRoles, finallyAllowed) IN
         IF r.done THEN FALSE
         ELSE RolesLoop(Tail(rs), taggedRoles, r.finallyAllowed)

\* IsFieldAccessAllowed with the default flipped before the roles are
\* scanned: a negated token anywhere in the tag starts the flag at TRUE
IsFieldAccessAllowedFlipFirst(rs, tag) ==
    IF tag = <<"*">> THEN TRUE
    ELSE LET taggedRoles == Split(tag, ",") IN
         RolesLoop(rs, taggedRoles,
                   \E i \in 1..Len(taggedRoles) : HasPrefix(taggedRoles[i], "!"))

\* IsFieldAccessAllowed without the wildcard shortcut
IsFieldAccessAllowedNoWildcard(rs, tag) == RolesLoop(rs, Split(tag, ","), FALSE)

IsFieldAccessAllowed(rs, tag) ==
    IF tag = <<"*">> THEN TRUE
    ELSE RolesLoop(rs, Split(tag, ","), FALSE)

-----------------------------------------------------------------------------
(* Struct types: a sequence of fields, each with its name, its Go type and *)
(* the values of its readxs and writexs tags ("" when the tag is absent).  *)

Field(name, typ, readxs, writexs) ==
    [name |-> name, typ |-> typ, readxs |-> readxs, writexs |-> writexs]

\* the names of the fields of struct type st
FieldNames(st) == {st[i].name : i \in 1..Len(st)}

\* reflect.Type.FieldByName: the index of the field, 0 when there is none
FieldIndex(st, name) ==
    IF name \in FieldNames(st)
    THEN CHOOSE i \in 1..Len(st) : st[i].name = name
    ELSE 0

\* IsAllowedToSetField, struccy.go 1042-1052, on the entity's struct type
IsAllowedToSetField(st, name, rs) ==
    LET i == FieldIndex(st, name) IN
    IF i = 0 THEN FALSE
    ELSE IsFieldAccessAllowed(rs, st[i].writexs)

-----------------------------------------------------------------------------
(* The access evaluator on its own: SpecAccess.                            *)

\* the entity of an access query: one string field carrying the tag
TaggedEntity(tag) == <<Field("Field1", <<"string">>, <<>>, tag)>>

InitAccess ==
    /\ pc = "ready"
    /\ call \in [roles : Lists(RoleStrs, MaxRoles),
                 tagValue : Strs(TagAlphabet, MaxTagLen)]
    /\ ret = NoRet

CallIsFieldAccessAllowed ==
    /\ pc = "ready"
    /\ pc' = "done"
    /\ ret' = [fn |-> "IsFieldAccessAllowed",
               allowed |-> IsFieldAccessAllowed(call.roles, call.tagValue)]
    /\ UNCHANGED call

CallIsAllowedToSetField ==
    /\ pc = "ready"
    /\ \E name \in {"Field1", "InvalidField"} :
          ret' = [fn |-> "IsAllowedToSetField", fieldName |-> name,
                  allowed |-> IsAllowedToSetField(TaggedEntity(call.tagValue),
                                                  name, call.roles)]
    /\ pc' = "done"
    /\ UNCHANGED call

NextAccess == CallIsFieldAccessAllowed \/ CallIsAllowedToSetField

SpecAccess == InitAccess /\ [][NextAccess]_vars

-----------------------------------------------------------------------------
(* Go types and values (package reflect, as the code uses it).             *)

\* the defined (named) types: type StringList []string
TypeNames == {"StringList"}

IsNamed(T) == Head(T) \in TypeNames

\* the underlying type: a defined type's name stripped
Underlying(T) == IF IsNamed(T) THEN Tail(T) ELSE T

\* reflect.Type.Kind
Kind(T) == Head(Underlying(T))

\* reflect.Type.Elem of a pointer or slice type
Elem(T) == Tail(Underlying(T))

\* the type *T
PtrTo(T) == <<"ptr">> \o T

\* reflect.Zero: the payload of the zero value of type T
Zero(T) ==
    CASE Kind(T) = "string" -> ""
      [] Kind(T) \in {"int", "int8", "int64", "float64"} -> 0
      [] Kind(T) = "bool" -> FALSE
      [] OTHER -> <<>>

\* reflect.Value.IsNil of a pointer payload
IsNil(v) == v = <<>>

\* reflect.Value.Elem of a non-nil pointer payload
Deref(v) == v[1]

\* reflect.New(T) followed by Elem().Set(v): a pointer to a copy of v
NewPtr(v) == <<v>>

\* reflect.Type.AssignableTo: identical types, identical underlying types
\* when one of the two is not a defined type, or the empty interface
AssignableTo(V, T) ==
    \/ V = T
    \/ Underlying(V) = Underlying(T) /\ (~IsNamed(V) \/ ~IsNamed(T))
    \/ Kind(T) = "interface"

\* the kinds of setReflectField's kind tests that the model has types of
IntKinds == {"int", "int8", "int64"}
FloatKinds == {"float64"}

\* reflect.Type.ConvertibleTo, for the types of the model: numbers among
\* themselves, an integer to a string, identical underlying types, pointers
\* to identical underlying types, anything to the empty interface
ConvertibleTo(V, T) ==
    \/ Kind(V) \in IntKinds \cup FloatKinds /\ Kind(T) \in IntKinds \cup FloatKinds
    \/ Kind(V) \in IntKinds /\ Kind(T) = "string"
    \/ Underlying(V) = Underlying(T)
    \/ /\ Kind(V) = "ptr" /\ Kind(T) = "ptr" /\ ~IsNamed(V) /\ ~IsNamed(T)
       /\ Underlying(Elem(V)) = Underlying(Elem(T))
    \/ Kind(T) = "interface"

\* an integer brought into the range of an integer kind, as a Go
\* conversion does; the numbers of the model are far inside 64 bits
WrapInt(n, k) ==
    IF k = "int8" THEN ((n + 128) % 256) - 128 ELSE n

\* a float64 payload counts tenths: 39 is 3.9.  Its integer part,
\* truncated toward zero as a Go conversion does
TruncFloat(f) == IF f >= 0 THEN f \div 10 ELSE -((-f) \div 10)

\* string(rune(n)): the one-character string with code point n
RuneString(n) == "\\u" \o ToString(n)

\* reflect.Value.Convert: the payload of v (type V) as type T
Convert(v, V, T) ==
    CASE Kind(V) \in IntKinds /\ Kind(T) \in IntKinds -> WrapInt(v, Kind(T))
      [] Kind(V) \in IntKinds /\ Kind(T) \in FloatKinds -> v * 10
      [] Kind(V) \in FloatKinds /\ Kind(T) \in IntKinds ->
            WrapInt(TruncFloat(v), Kind(T))
      [] Kind(V) \in IntKinds /\ Kind(T) = "string" -> RuneString(v)
      [] OTHER -> v

\* reflect.Value.IsZero of payload v of type T
IsZero(T, v) == v = Zero(T)

RECURSIVE Values(_)
\* the payloads of type T the model draws field values from
Values(T) ==
    CASE Kind(T) = "string" -> {"", "a", "b"}
      [] Kind(T) \in {"int", "int64"} -> {0, 1, 2}
      [] Kind(T) = "int8" -> {0, 5}
      [] Kind(T) = "float64" -> {0, 39}
      [] Kind(T) = "bool" -> {FALSE, TRUE}
      [] Kind(T) = "slice" -> {<<>>, <<"a">>, <<"a", "b">>}
      [] Kind(T) = "ptr" -> {<<>>} \cup {<<v>> : v \in Values(Elem(T))}
      [] Kind(T) = "chan" -> {<<>>, <<"c">>}
      [] Kind(T) = "func" -> {<<>>, <<"f">>}
      [] Kind(T) = "interface" -> {<<>>, <<"a">>}

-----------------------------------------------------------------------------
(* Structs: [shape, typ, val].  shape tells what the caller passed: a      *)
(* pointer to a struct, a struct by value, or a pointer to something else; *)
(* typ is the struct type, val maps each field name to its payload.        *)

RECURSIVE StructValuesFrom(_, _)
\* the payloads of fields i.. of a struct of type st, one map per choice
StructValuesFrom(st, i) ==
    IF i = Len(st)
    THEN {st[i].name :> v : v \in Values(st[i].typ)}
    ELSE {(st[i].name :> v) @@ rest :
             v \in Values(st[i].typ), rest \in StructValuesFrom(st, i + 1)}

\* the payloads of the fields of a struct of type st
StructValues(st) == StructValuesFrom(st, 1)

\* reflect.ValueOf(x).Kind() == reflect.Ptr && .Elem().Kind() == reflect.Struct
IsStructPointer(x) == x.shape = "ptr-struct"

\* the error values; field names the field a wrapped error carries
NilErr == [kind |-> "nil", field |-> ""]
Err(kind, name) == [kind |-> kind, field |-> name]

\* a run-time panic of package reflect (Value.Set on a value that is not
\* assignable to the field's type) while field name was being written:
\* the call does not return
Panic(name) == [kind |-> "panic", field |-> name]

\* the nil interface value a call returns beside an error
NilStruct == [shape |-> "nil"]

-----------------------------------------------------------------------------
(* FilterStructTo, struccy.go 261-344.                                     *)

\* lines 298-302 and 306-310: a pointer source into a non-pointer field
\* holding old; the field's payload afterwards
FilterFromPointer(sv, fT, old, zeroDisallowed) ==
    IF ~IsNil(sv) THEN Deref(sv)
    ELSE IF ~zeroDisallowed THEN Zero(fT)
    ELSE old

\* FilterToPointer refusing the wrap: the field is left as it was
FilterToPointerKeepsOld(sv, old) == old

\* lines 317-318: a non-pointer source into a pointer field holding old
FilterToPointer(sv, old) == NewPtr(sv)

\* FilterSameType leaving the field alone on a nil source pointer
FilterSameTypeSkipsNil(sv, sT, old, zeroDisallowed) ==
    IF Kind(sT) = "ptr" /\ IsNil(sv) THEN old ELSE sv

\* lines 331-339: an allowed source into a field of the same type
FilterSameType(sv, sT, old, zeroDisallowed) ==
    IF Kind(sT) = "ptr"
    THEN IF ~IsNil(sv) THEN sv
         ELSE IF ~zeroDisallowed THEN Zero(sT)
         ELSE old
    ELSE sv

\* lines 325-328: a field the caller may not read
FilterDisallowed(fT, old, zeroDisallowed) ==
    IF zeroDisallowed THEN Zero(fT) ELSE old

\* one pass of the loop body (282-340) for field i of the filtered struct:
\* the filtered struct's payloads after it, and the error it returns
FilterField(source, ft, fv, i, xsList, zeroDisallowed) ==
    LET field == ft[i]
        name == field.name
        fT == field.typ
        old == fv[name]
        si == FieldIndex(source.typ, name)
        sT == source.typ[si].typ
        sv == source.val[name]
        set(v) == [val |-> [fv EXCEPT ![name] = v], err |-> NilErr]
        fail == [val |-> fv, err |-> Err("ErrFieldTypeMismatch", name)]
    IN
    IF si = 0
    THEN set(IF zeroDisallowed THEN Zero(fT) ELSE old)
    ELSE IF sT /= fT
    THEN IF Kind(sT) = "ptr" /\ Kind(fT) /= "ptr"
         THEN IF Elem(sT) = fT
              THEN set(FilterFromPointer(sv, fT, old, zeroDisallowed))
              ELSE IF /\ Kind(Elem(sT)) = "slice"
                      /\ Kind(fT) = "slice"
                      /\ Elem(Elem(sT)) = Elem(fT)
                   THEN set(FilterFromPointer(sv, fT, old, zeroDisallowed))
                   ELSE fail
         ELSE IF Kind(sT) /= "ptr" /\ Kind(fT) = "ptr" /\ sT = Elem(fT)
              THEN set(FilterToPointer(sv, old))
              ELSE fail
    ELSE IF ~IsFieldAccessAllowed(xsList, field.readxs)
         THEN set(FilterDisallowed(fT, old, zeroDisallowed))
         ELSE set(FilterSameType(sv, sT, old, zeroDisallowed))

RECURSIVE FilterLoop(_, _, _, _, _, _)
\* the loop over the filtered struct's fields from field i on (282-343)
FilterLoop(source, ft, fv, i, xsList, zeroDisallowed) ==
    IF i > Len(ft) THEN [val |-> fv, err |-> NilErr]
    ELSE LET r == FilterField(source, ft, fv, i, xsList, zeroDisallowed) IN
         IF r.err /= NilErr THEN r
         ELSE FilterLoop(source, ft, r.val, i + 1, xsList, zeroDisallowed)

\* FilterStructTo: the error returned and the filtered struct as left
FilterStructTo(sourceStruct, filteredStruct, xsList, zeroDisallowed) ==
    IF ~IsStructPointer(sourceStruct)
    THEN [err |-> Err("ErrSourceStructMustBePointer", ""),
          filteredStruct |-> filteredStruct]
    ELSE IF ~IsStructPointer(filteredStruct)
    THEN [err |-> Err("ErrFilteredStructMustBePointer", ""),
          filteredStruct |-> filteredStruct]
    ELSE LET r == FilterLoop(sourceStruct, filteredStruct.typ,
                             filteredStruct.val, 1, xsList, zeroDisallowed)
         IN [err |-> r.err,
             filteredStruct |-> [filteredStruct EXCEPT !.val = r.val]]

-----------------------------------------------------------------------------
(* MergeStructUpdateTo, struccy.go 65-129.                                 *)

\* reflect.Value.Set(v) on a field of type T with v of type V: the field's
\* payload afterwards, or a panic when V is not assignable to T
SetValue(name, T, V, v) ==
    IF AssignableTo(V, T)
    THEN [val |-> IF Kind(T) = "interface" /\ Kind(V) /= "interface"
                  THEN <<v>> ELSE v,
          err |-> NilErr]
    ELSE [val |-> v, err |-> Panic(name)]

\* MergeAssign without the dereferencing branch: an update pointer only
\* reaches a pointer field, a non-pointer target field is left as it was
MergeAssignSkipsDeref(name, uT, uv, tT, old) ==
    IF Kind(uT) = "ptr"
    THEN IF ~IsNil(uv) /\ Kind(tT) = "ptr"
         THEN SetValue(name, tT, uT, uv)
         ELSE [val |-> old, err |-> NilErr]
    ELSE IF Kind(tT) = "ptr"
         THEN SetValue(name, Elem(tT), uT, NewPtr(uv))
         ELSE IF AssignableTo(uT, tT)
              THEN [val |-> uv, err |-> NilErr]
              ELSE [val |-> old, err |-> Err("ErrFieldTypeMismatch", name)]

\* lines 101-120: the write of update payload uv (type uT) into the merged
\* field of type tT holding old; the field's payload and the error
MergeAssign(name, uT, uv, tT, old) ==
    IF Kind(uT) = "ptr"
    THEN IF ~IsNil(uv)
         THEN IF Kind(tT) = "ptr"
              THEN SetValue(name, tT, uT, uv)
              ELSE SetValue(name, tT, Elem(uT), Deref(uv))
         ELSE [val |-> old, err |-> NilErr]
    ELSE IF Kind(tT) = "ptr"
         THEN SetValue(name, Elem(tT), uT, NewPtr(uv))
         ELSE IF AssignableTo(uT, tT)
              THEN [val |-> uv, err |-> NilErr]
              ELSE [val |-> old, err |-> Err("ErrFieldTypeMismatch", name)]

\* the kinds the switch at 122-125 rejects
UnsupportedKinds == {"chan", "func", "interface"}

\* MergeField without the switch on the update field's kind
MergeFieldNoKindSwitch(update, tt, mv, i, xsList) ==
    LET field == update.typ[i]
        name == field.name
        ti == FieldIndex(tt, name)
        r == MergeAssign(name, field.typ, update.val[name], tt[ti].typ, mv[name])
    IN
    IF ti = 0 THEN [val |-> mv, err |-> Err("ErrFieldNotFound", name)]
    ELSE IF ~IsFieldAccessAllowed(xsList, field.writexs)
    THEN [val |-> mv, err |-> NilErr]
    ELSE IF r.err /= NilErr THEN [val |-> mv, err |-> r.err]
    ELSE [val |-> [mv EXCEPT ![name] = r.val], err |-> NilErr]

\* one pass of the loop body (88-125) for field i of the update struct
MergeField(update, tt, mv, i, xsList) ==
    LET field == update.typ[i]
        name == field.name
        ti == FieldIndex(tt, name)
        r == MergeAssign(name, field.typ, update.val[name], tt[ti].typ, mv[name])
    IN
    IF ti = 0 THEN [val |-> mv, err |-> Err("ErrFieldNotFound", name)]
    ELSE IF ~IsFieldAccessAllowed(xsList, field.writexs)
    THEN [val |-> mv, err |-> NilErr]
    ELSE IF r.err /= NilErr THEN [val |-> mv, err |-> r.err]
    ELSE IF Kind(field.typ) \in UnsupportedKinds
    THEN [val |-> [mv EXCEPT ![name] = r.val],
          err |-> Err("ErrUnsupportedFieldType", name)]
    ELSE [val |-> [mv EXCEPT ![name] = r.val], err |-> NilErr]

RECURSIVE MergeLoop(_, _, _, _, _)
\* the loop over the update struct's fields from field i on (87-128)
MergeLoop(update, tt, mv, i, xsList) ==
    IF i > Len(update.typ) THEN [val |-> mv, err |-> NilErr]
    ELSE LET r == MergeField(update, tt, mv, i, xsList) IN
         IF r.err /= NilErr THEN r
         ELSE MergeLoop(update, tt, r.val, i + 1, xsList)

\* MergeStructUpdateTo: the merged struct returned (a fresh copy of the
\* target, lines 80-85, with the update applied) and the error
MergeStructUpdateTo(targetStruct, updateStruct, xsList) ==
    IF ~IsStructPointer(targetStruct)
    THEN [mergedStruct |-> NilStruct, err |-> Err("ErrTargetStructMustBePointer", "")]
    ELSE IF ~IsStructPointer(updateStruct)
    THEN [mergedStruct |-> NilStruct, err |-> Err("ErrUpdateStructMustBePointer", "")]
    ELSE LET r == MergeLoop(updateStruct, targetStruct.typ, targetStruct.val, 1, xsList)
         IN IF r.err /= NilErr
            THEN [mergedStruct |-> NilStruct, err |-> r.err]
            ELSE [mergedStruct |-> [targetStruct EXCEPT !.val = r.val],
                  err |-> NilErr]

-----------------------------------------------------------------------------
(* SetField and setReflectField, struccy.go 835-1031.  An offered value is *)
(* [typ, v]; the untyped nil has the type <<"nil">> (reflect's Invalid).   *)

UntypedNil == [typ |-> <<"nil">>, v |-> <<>>]

\* the outcome of a write to one field: its payload afterwards and the error
Stored(v) == [val |-> v, err |-> NilErr]
StoredBut(v, kind) == [val |-> v, err |-> Err(kind, "")]
Refused(old, kind) == [val |-> old, err |-> Err(kind, "")]

\* lines 871-956: a pointer value whose element type is assignable to the
\* field type fT
SetFromPointer(fT, old, V, v) ==
    IF Kind(fT) = "ptr"
    THEN IF AssignableTo(Elem(V), Elem(fT))
         THEN Stored(NewPtr(Deref(v)))
         ELSE [val |-> NewPtr(Zero(Elem(fT))), err |-> Panic("")]
    ELSE IF Kind(fT) \in {"string", "bool", "slice", "map", "struct"}
                            \cup IntKinds \cup FloatKinds
    THEN Stored(Deref(v))
    ELSE Refused(old, "ErrInvalidFieldType")

\* lines 957-989: a value whose type is not convertible to the field type
SetNotConvertible(fT, old, V, v) ==
    IF Kind(fT) = "ptr" /\ AssignableTo(V, Elem(fT))
    THEN Refused(old, "ErrInvalidPtrType")
    ELSE IF Kind(fT) \in IntKinds
    THEN IF Kind(V) \notin IntKinds
         THEN Refused(old, "ErrInvalidFieldType")
         ELSE Stored(Convert(Convert(v, V, <<"int64">>), <<"int64">>, fT))
    ELSE IF Kind(fT) \in FloatKinds
    THEN IF Kind(V) \notin FloatKinds
         THEN Refused(old, "ErrInvalidFieldType")
         ELSE Stored(Convert(Convert(v, V, <<"float64">>), <<"float64">>, fT))
    ELSE IF Kind(V) = "ptr" /\ AssignableTo(Elem(V), fT)
    THEN Refused(old, "ErrInvalidFieldType")
    ELSE Stored(old)

\* lines 990-1009: a value whose type is convertible, not assignable, to
\* the field type: the field is written and ErrInvalidFieldType returned
SetConvertible(fT, old, V, v) ==
    IF Kind(fT) = "ptr" /\ AssignableTo(V, Elem(fT))
    THEN StoredBut(NewPtr(v), "ErrInvalidFieldType")
    ELSE IF Kind(V) = "ptr" /\ AssignableTo(Elem(V), fT)
    THEN StoredBut(Deref(v), "ErrInvalidFieldType")
    ELSE StoredBut(Convert(v, V, fT), "ErrInvalidFieldType")

\* setReflectField (858-1031) on a field of type fT holding old, for the
\* value v of type V
setReflectField(fT, old, V, v) ==
    IF AssignableTo(V, fT) THEN Stored(v)
    ELSE IF Kind(V) = "ptr" /\ AssignableTo(Elem(V), fT)
    THEN SetFromPointer(fT, old, V, v)
    ELSE IF ~ConvertibleTo(V, fT)
    THEN SetNotConvertible(fT, old, V, v)
    ELSE SetConvertible(fT, old, V, v)

\* SetField looking at the value before it looks at the roles
SetFieldSkipsBeforeAuthorization(entity, fieldName, value, skipZeroVals, rs) ==
    LET i == FieldIndex(entity.typ, fieldName)
        r == setReflectField(entity.typ[i].typ, entity.val[fieldName],
                             value.typ, value.v)
    IN
    IF ~IsStructPointer(entity)
    THEN [err |-> Err("ErrInvalidStructPointer", ""), entity |-> entity]
    ELSE IF i = 0
    THEN [err |-> Err("ErrInvalidFieldName", ""), entity |-> entity]
    ELSE IF Kind(value.typ) = "ptr" /\ IsNil(value.v)
    THEN [err |-> NilErr, entity |-> entity]
    ELSE IF Kind(value.typ) = "nil"
    THEN [err |-> Panic(""), entity |-> entity]
    ELSE IF IsZero(value.typ, value.v)
    THEN [err |-> NilErr, entity |-> entity]
    ELSE IF ~IsAllowedToSetField(entity.typ, fieldName, rs)
    THEN [err |-> Err("ErrUnauthorizedFieldSet", ""), entity |-> entity]
    ELSE [err |-> r.err,
          entity |-> [entity EXCEPT !.val[fieldName] = r.val]]

\* SetField: the error returned (or the panic) and the entity as left
SetField(entity, fieldName, value, skipZeroVals, rs) ==
    LET i == FieldIndex(entity.typ, fieldName)
        r == setReflectField(entity.typ[i].typ, entity.val[fieldName],
                             value.typ, value.v)
    IN
    IF ~IsStructPointer(entity)
    THEN [err |-> Err("ErrInvalidStructPointer", ""), entity |-> entity]
    ELSE IF i = 0
    THEN [err |-> Err("ErrInvalidFieldName", ""), entity |-> entity]
    ELSE IF ~IsAllowedToSetField(entity.typ, fieldName, rs)
    THEN [err |-> Err("ErrUnauthorizedFieldSet", ""), entity |-> entity]
    ELSE IF Kind(value.typ) = "ptr" /\ IsNil(value.v)
    THEN [err |-> NilErr, entity |-> entity]
    ELSE IF Kind(value.typ) = "nil"
    THEN [err |-> Panic(""), entity |-> entity]
    ELSE IF IsZero(value.typ, value.v)
    THEN [err |-> NilErr, entity |-> entity]
    ELSE [err |-> r.err,
          entity |-> [entity EXCEPT !.val[fieldName] = r.val]]

-----------------------------------------------------------------------------
(* MergeMapStringFieldsToStruct and assignValueToField, struccy.go 155-236. *)
(* An update map is a function from keys to offered values [typ, v].      *)

\* checkTypeConvertible (228-236)
checkTypeConvertible(V, T) ==
    \/ Kind(V) = "int8" /\ Kind(T) = "int"
    \/ ConvertibleTo(V, T)

\* lines 199-211: a valid value v of type V into a pointer field of type
\* tT holding old; a nil pointer field is first given a fresh pointer
AssignToPointerField(tT, old, V, v) ==
    IF AssignableTo(V, Elem(tT)) THEN Stored(NewPtr(v))
    ELSE IF checkTypeConvertible(V, Elem(tT))
    THEN Stored(NewPtr(Convert(v, V, Elem(tT))))
    ELSE Refused(IF IsNil(old) THEN NewPtr(Zero(Elem(tT))) ELSE old,
                 "ErrFieldTypeMismatch")

\* lines 212-221: a valid value v of type V into a non-pointer field
AssignToPlainField(tT, old, V, v) ==
    IF AssignableTo(V, tT) THEN Stored(v)
    ELSE IF checkTypeConvertible(V, tT) THEN Stored(Convert(v, V, tT))
    ELSE Refused(old, "ErrFieldTypeMismatch")

\* assignValueToField (181-225) on a field of type tT holding old, for the
\* map value v of dynamic type V.  A nil pointer is dereferenced to the
\* invalid Value, whose Type() panics.
assignValueToField(tT, old, V, v) ==
    IF Kind(V) = "nil"
    THEN IF Kind(tT) = "ptr" THEN Stored(Zero(tT))
         ELSE Refused(old, "ErrCannotAssignNil")
    ELSE IF Kind(V) = "ptr" /\ IsNil(v)
    THEN [val |-> IF Kind(tT) = "ptr" /\ IsNil(old)
                  THEN NewPtr(Zero(Elem(tT))) ELSE old,
          err |-> Panic("")]
    ELSE LET D == IF Kind(V) = "ptr" THEN Elem(V) ELSE V
             d == IF Kind(V) = "ptr" THEN Deref(v) ELSE v
         IN IF Kind(tT) = "ptr" THEN AssignToPointerField(tT, old, D, d)
            ELSE AssignToPlainField(tT, old, D, d)

RECURSIVE MergeMapLoop(_, _, _, _)
\* the loop 162-175 over the keys of updateMap still to come, in the order
\* keys, on the target's payloads tv: the payloads and the error
MergeMapLoop(st, tv, updateMap, keys) ==
    IF Len(keys) = 0 THEN [val |-> tv, err |-> NilErr]
    ELSE LET key == Head(keys)
             ti == FieldIndex(st, key)
             r == assignValueToField(st[ti].typ, tv[key],
                                     updateMap[key].typ, updateMap[key].v)
         IN IF ti = 0 THEN MergeMapLoop(st, tv, updateMap, Tail(keys))
            ELSE IF r.err /= NilErr
            THEN [val |-> [tv EXCEPT ![key] = r.val],
                  err |-> [r.err EXCEPT !.field = key]]
            ELSE MergeMapLoop(st, [tv EXCEPT ![key] = r.val], updateMap,
                              Tail(keys))

\* MergeMapStringFieldsToStruct skipping the keys of fields whose writexs
\* denies xsList
MergeMapChecksAccess(targetStruct, updateMap, xsList, keys) ==
    IF ~IsStructPointer(targetStruct)
    THEN [result |-> NilStruct, err |-> Err("ErrTargetStructMustBePointer", ""),
          target |-> targetStruct]
    ELSE LET r == MergeMapLoop(targetStruct.typ, targetStruct.val, updateMap,
                               SelectSeq(keys, LAMBDA k :
                                   IsAllowedToSetField(targetStruct.typ, k, xsList)))
             after == [targetStruct EXCEPT !.val = r.val]
         IN [result |-> IF r.err = NilErr THEN after ELSE NilStruct,
             err |-> r.err, target |-> after]

\* MergeMapStringFieldsToStruct undoing every assignment when one fails
MergeMapAllOrNothing(targetStruct, updateMap, xsList, keys) ==
    IF ~IsStructPointer(targetStruct)
    THEN [result |-> NilStruct, err |-> Err("ErrTargetStructMustBePointer", ""),
          target |-> targetStruct]
    ELSE LET r == MergeMapLoop(targetStruct.typ, targetStruct.val,
                               updateMap, keys)
             after == [targetStruct EXCEPT !.val = r.val]
         IN IF r.err = NilErr
            THEN [result |-> after, err |-> r.err, target |-> after]
            ELSE [result |-> NilStruct, err |-> r.err, target |-> targetStruct]

\* MergeMapStringFieldsToStruct, the map ranged over in the order keys:
\* the struct returned, the error, and the target as the call leaves it
\* (the target is written in place)
MergeMapStringFieldsToStruct(targetStruct, updateMap, xsList, keys) ==
    IF ~IsStructPointer(targetStruct)
    THEN [result |-> NilStruct, err |-> Err("ErrTargetStructMustBePointer", ""),
          target |-> targetStruct]
    ELSE LET r == MergeMapLoop(targetStruct.typ, targetStruct.val,
                               updateMap, keys)
             after == [targetStruct EXCEPT !.val = r.val]
         IN [result |-> IF r.err = NilErr THEN after ELSE NilStruct,
             err |-> r.err, target |-> after]

-----------------------------------------------------------------------------
(* UpdateStructFields, struccy.go 794-822.  A Go map is [isNil, entries]:  *)
(* entries is a function from names to values [typ, v].                    *)

\* make(map[string]any), the nil map, and m[key] = value
EmptyMap == [isNil |-> FALSE, entries |-> <<>>]
NilMap == [isNil |-> TRUE, entries |-> <<>>]
MapPut(m, key, value) == [m EXCEPT !.entries = (key :> value) @@ m.entries]

\* the state of the loop: the entity as written so far, the two maps, the
\* error, and whether the call is over (returned early or panicked)
UpdateState(entity, updated, unsettable, err, over) ==
    [entity |-> entity, updatedFields |-> updated,
     unsettableFields |-> unsettable, err |-> err, over |-> over]

\* one pass of the loop body (801-819) for position i, from loop state st
UpdateField(st, incomingEntity, i, rs, skipZeroVals, ignoreUnsettables) ==
    LET entityType == st.entity.typ
        name == entityType[i].name
        ii == FieldIndex(incomingEntity.typ, name)
        fieldValue == [typ |-> incomingEntity.typ[ii].typ,
                       v |-> incomingEntity.val[name]]
        r == SetField(st.entity, name, fieldValue, skipZeroVals, rs)
    IN
    IF i > Len(entityType)
    THEN [st EXCEPT !.err = Panic(""), !.over = TRUE]
    ELSE IF ii = 0 THEN st
    ELSE IF ~IsAllowedToSetField(entityType, name, rs) THEN st
    ELSE IF r.err = NilErr
    THEN [st EXCEPT !.entity = r.entity,
                    !.updatedFields = MapPut(@, name, fieldValue)]
    ELSE IF r.err.kind = "panic"
    THEN [st EXCEPT !.entity = r.entity, !.err = Panic(name), !.over = TRUE]
    ELSE IF ignoreUnsettables
    THEN [st EXCEPT !.entity = r.entity,
                    !.unsettableFields = MapPut(@, name, fieldValue)]
    ELSE [st EXCEPT !.entity = r.entity,
                    !.unsettableFields = MapPut(@, name, fieldValue),
                    !.updatedFields = NilMap,
                    !.err = r.err, !.over = TRUE]

RECURSIVE UpdateLoop(_, _, _, _, _, _)
\* the loop 800-820 from position i on: i runs over the positions of the
\* incoming struct's fields and indexes the entity's type
UpdateLoop(st, incomingEntity, i, rs, skipZeroVals, ignoreUnsettables) ==
    IF st.over \/ i > Len(incomingEntity.typ) THEN st
    ELSE UpdateLoop(UpdateField(st, incomingEntity, i, rs, skipZeroVals,
                                ignoreUnsettables),
                    incomingEntity, i + 1, rs, skipZeroVals, ignoreUnsettables)

\* UpdateStructFields: the two maps, the error (or the panic) and the
\* entity as the call leaves it.  Elem() and Field(i) of package reflect
\* panic on arguments that are not pointers to structs.
UpdateStructFields(entity, incomingEntity, rs, skipZeroVals, ignoreUnsettables) ==
    IF ~IsStructPointer(incomingEntity) \/ ~IsStructPointer(entity)
    THEN UpdateState(entity, EmptyMap, EmptyMap, Panic(""), TRUE)
    ELSE UpdateLoop(UpdateState(entity, EmptyMap, EmptyMap, NilErr, FALSE),
                    incomingEntity, 1, rs, skipZeroVals, ignoreUnsettables)

-----------------------------------------------------------------------------
(* FilterStructTo on its own: SpecFilter.                                  *)

\* the role names of the filter and merge calls
RoleNames == {<<"admin">>, <<"user">>}

\* the access expressions a varying field is tagged with
PolicyTags ==
    {<<"*">>, <<"admin">>, <<"!", "user">>, <<>>, <<"admin", ",", "user">>}

\* the Go types a varying field is declared with
FieldTypes ==
    {<<"string">>, <<"ptr", "string">>, <<"ptr", "ptr", "string">>, <<"int">>,
     <<"slice", "string">>, <<"ptr", "slice", "string">>,
     <<"ptr", "StringList", "slice", "string">>}

\* the destination record: Name and Value are looked up in the source by
\* name, Extra only exists in a source of the same struct type
RecordType(T, readxs) ==
    <<Field("Name", <<"string">>, <<"admin">>, <<"admin">>),
      Field("Value", T, readxs, readxs),
      Field("Extra", <<"int">>, <<"*">>, <<"*">>)>>

\* the transfer record: the same fields in another order, without Extra
DtoType(T, readxs) ==
    <<Field("Value", T, readxs, readxs),
      Field("Name", <<"string">>, <<"admin">>, <<"admin">>)>>

\* the structs of type st whose Name is name and whose Extra, if any, is extra
StructsOf(st, name, extra) ==
    {[shape |-> "ptr-struct", typ |-> st, val |-> v] :
        v \in {w \in StructValues(st) :
                  /\ w["Name"] = name
                  /\ "Extra" \in DOMAIN w => w["Extra"] = extra}}

\* the source and filtered struct pairs of the model: every pair of field
\* types between a transfer record and a record, and every record filtered
\* into a record of its own type
FilterPairs ==
    UNION {
        UNION {StructsOf(DtoType(sT, tag), "a", 0) \X StructsOf(RecordType(fT, tag), "b", 2)
                  : sT \in FieldTypes, fT \in FieldTypes}
        \cup
        UNION {StructsOf(RecordType(T, tag), "a", 1) \X StructsOf(RecordType(T, tag), "b", 2)
                  : T \in FieldTypes}
      : tag \in PolicyTags}

\* arguments that are not pointers to structs
BadShapes ==
    {[shape |-> sh, typ |-> RecordType(<<"string">>, <<"*">>),
      val |-> [Name |-> "a", Value |-> "a", Extra |-> 1]] :
        sh \in {"struct", "ptr-other"}}

InitFilter ==
    /\ pc = "ready"
    /\ \E p \in FilterPairs \cup (BadShapes \X BadShapes) :
       \E rs \in Lists(RoleNames, MaxRoles), zd \in BOOLEAN :
          call = [sourceStruct |-> p[1], filteredStruct |-> p[2],
                  xsList |-> rs, zeroDisallowed |-> zd]
    /\ ret = NoRet

CallFilterStructTo ==
    /\ pc = "ready"
    /\ pc' = "done"
    /\ LET r == FilterStructTo(call.sourceStruct, call.filteredStruct,
                               call.xsList, call.zeroDisallowed)
       IN ret' = [fn |-> "FilterStructTo", err |-> r.err,
                  filteredStruct |-> r.filteredStruct]
    /\ UNCHANGED call

NextFilter == CallFilterStructTo

SpecFilter == InitFilter /\ [][NextFilter]_vars

-----------------------------------------------------------------------------
(* MergeStructUpdateTo on its own: SpecMerge.                              *)

\* an update record with a field the target record does not have
StrayType ==
    <<Field("Name", <<"string">>, <<"admin">>, <<"admin">>),
      Field("Stray", <<"int">>, <<"*">>, <<"*">>)>>

\* field types of the kinds MergeStructUpdateTo rejects: chan int,
\* func(), interface{}
UnsupportedTypes == {<<"chan", "int">>, <<"func">>, <<"interface">>}

\* the target and update struct pairs of the model: every pair of field
\* types between a record and a transfer record, every record merged with
\* a record of its own type, an update with a stray field, and a record
\* updated from a transfer record whose Value is of a rejected kind
MergePairs ==
    UNION {
        UNION {StructsOf(RecordType(tT, tag), "b", 2) \X StructsOf(DtoType(uT, tag), "a", 0)
                  : tT \in FieldTypes, uT \in FieldTypes}
        \cup
        UNION {StructsOf(RecordType(T, tag), "b", 2) \X StructsOf(RecordType(T, tag), "a", 1)
                  : T \in FieldTypes}
      : tag \in PolicyTags}
    \cup
    (StructsOf(RecordType(<<"string">>, <<"*">>), "b", 2) \X StructsOf(StrayType, "a", 0))
    \cup
    UNION {StructsOf(RecordType(T, tag), "b", 2) \X StructsOf(DtoType(T, tag), "a", 0)
              : T \in UnsupportedTypes, tag \in PolicyTags}

InitMerge ==
    /\ pc = "ready"
    /\ \E p \in MergePairs \cup (BadShapes \X BadShapes) :
       \E rs \in Lists(RoleNames, MaxRoles) :
          call = [targetStruct |-> p[1], updateStruct |-> p[2], xsList |-> rs]
    /\ ret = NoRet

CallMergeStructUpdateTo ==
    /\ pc = "ready"
    /\ pc' = "done"
    /\ LET r == MergeStructUpdateTo(call.targetStruct, call.updateStruct, call.xsList)
       IN ret' = [fn |-> "MergeStructUpdateTo", err |-> r.err,
                  mergedStruct |-> r.mergedStruct]
    /\ UNCHANGED call

NextMerge == CallMergeStructUpdateTo

SpecMerge == InitMerge /\ [][NextMerge]_vars

-----------------------------------------------------------------------------
(* SetField on its own: SpecSetField.                                      *)

\* the Go types the written field is declared with
SetFieldTypes ==
    {<<"string">>, <<"int">>, <<"float64">>, <<"bool">>, <<"ptr", "string">>,
     <<"ptr", "int">>, <<"slice", "string">>}

\* the dynamic types of the values offered to SetField; <<"nil">> is the
\* untyped nil
OfferedTypes ==
    {<<"string">>, <<"int">>, <<"int8">>, <<"float64">>, <<"bool">>,
     <<"ptr", "string">>, <<"ptr", "int8">>, <<"ptr", "int">>,
     <<"slice", "string">>, <<"ptr", "slice", "string">>,
     <<"ptr", "ptr", "string">>, <<"nil">>}

\* the payloads offered with dynamic type V
OfferedPayloads(V) == IF Kind(V) = "nil" THEN {UntypedNil.v} ELSE Values(V)

\* the entities written to: a Name only "admin" may write and a Value of
\* each field type under each write policy
SetEntities ==
    UNION {StructsOf(DtoType(fT, tag), "a", 0) :
              fT \in SetFieldTypes, tag \in PolicyTags}

InitSetField ==
    /\ pc = "ready"
    /\ \E e \in SetEntities \cup BadShapes,
          name \in {"Value", "Name", "InvalidField"},
          V \in OfferedTypes, sz \in BOOLEAN,
          rs \in Lists(RoleNames, MaxRoles) :
       \E x \in OfferedPayloads(V) :
          call = [entity |-> e, fieldName |-> name,
                  value |-> [typ |-> V, v |-> x],
                  skipZeroVals |-> sz, roles |-> rs]
    /\ ret = NoRet

CallSetField ==
    /\ pc = "ready"
    /\ pc' = "done"
    /\ LET r == SetField(call.entity, call.fieldName, call.value,
                         call.skipZeroVals, call.roles)
       IN ret' = [fn |-> "SetField", err |-> r.err, entity |-> r.entity]
    /\ UNCHANGED call

NextSetField == CallSetField

SpecSetField == InitSetField /\ [][NextSetField]_vars

-----------------------------------------------------------------------------
(* MergeMapStringFieldsToStruct on its own: SpecMergeMap.                  *)

\* the orders in which a range over a map with key set S may run
Orders(S) ==
    {p \in [1..Cardinality(S) -> S] :
        \A i, j \in 1..Cardinality(S) : p[i] = p[j] => i = j}

\* a map with the entries of m and, when present, key bound to value
WithEntry(m, present, key, value) ==
    IF present THEN (key :> value) @@ m ELSE m

\* the values the Name key of an update map is bound to: a string, and a
\* bool that no string field takes
NameEntries ==
    {[typ |-> <<"string">>, v |-> "n"], [typ |-> <<"bool">>, v |-> TRUE]}

\* the targets merged into: a Name only "admin" may write and a Value of
\* each field type that everyone, or only "admin", may write
MapTargets ==
    UNION {StructsOf(DtoType(fT, tag), "a", 0) :
              fT \in SetFieldTypes, tag \in {<<"*">>, <<"admin">>}}

InitMergeMap ==
    /\ pc = "ready"
    /\ \E e \in MapTargets \cup BadShapes,
          V \in OfferedTypes, hasValue \in BOOLEAN,
          nameEntry \in NameEntries, hasName \in BOOLEAN,
          hasStray \in BOOLEAN,
          rs \in Lists(RoleNames, MaxRoles) :
       \E x \in OfferedPayloads(V) :
          call = [targetStruct |-> e,
                  updateMap |->
                      WithEntry(
                        WithEntry(
                          WithEntry(<<>>, hasStray, "Stray",
                                    [typ |-> <<"int">>, v |-> 1]),
                          hasName, "Name", nameEntry),
                        hasValue, "Value", [typ |-> V, v |-> x]),
                  xsList |-> rs]
    /\ ret = NoRet

CallMergeMapStringFieldsToStruct ==
    /\ pc = "ready"
    /\ pc' = "done"
    /\ \E keys \in Orders(DOMAIN call.updateMap) :
          LET r == MergeMapStringFieldsToStruct(call.targetStruct,
                                                call.updateMap, call.xsList, keys)
          IN ret' = [fn |-> "MergeMapStringFieldsToStruct", keys |-> keys,
                     err |-> r.err, result |-> r.result, target |-> r.target]
    /\ UNCHANGED call

NextMergeMap == CallMergeMapStringFieldsToStruct

SpecMergeMap == InitMergeMap /\ [][NextMergeMap]_vars

-----------------------------------------------------------------------------
(* UpdateStructFields on its own: SpecUpdate.                              *)

\* the Go types the entity's Value and the incoming Value are declared with
EntityFieldTypes ==
    {<<"string">>, <<"int">>, <<"bool">>, <<"ptr", "string">>}
IncomingFieldTypes ==
    {<<"string">>, <<"int">>, <<"int8">>, <<"bool">>, <<"ptr", "string">>,
     <<"slice", "string">>}

\* an incoming struct type with the Value field alone
ValueOnlyType(T, writexs) == <<Field("Value", T, writexs, writexs)>>

\* the structs of type st, whatever their fields hold
AllStructsOf(st) ==
    {[shape |-> "ptr-struct", typ |-> st, val |-> v] : v \in StructValues(st)}

\* the entity and incoming struct pairs of the model: a record updated
\* from a transfer record, from a struct with Value alone and from a
\* record of its own type; a transfer record updated from another
\* transfer record and from a record, which has one field more
UpdatePairs ==
    UNION {
        UNION {StructsOf(RecordType(eT, tag), "b", 2)
                  \X (StructsOf(DtoType(iT, tag), "a", 0)
                        \cup AllStructsOf(ValueOnlyType(iT, tag)))
                  : eT \in EntityFieldTypes, iT \in IncomingFieldTypes}
        \cup
        UNION {StructsOf(DtoType(eT, tag), "b", 2)
                  \X (StructsOf(DtoType(iT, tag), "a", 0)
                        \cup StructsOf(RecordType(iT, tag), "a", 0))
                  : eT \in EntityFieldTypes, iT \in IncomingFieldTypes}
        \cup
        UNION {StructsOf(RecordType(T, tag), "b", 2)
                  \X StructsOf(RecordType(T, tag), "a", 0)
                  : T \in EntityFieldTypes}
      : tag \in {<<"*">>, <<"admin">>}}

InitUpdate ==
    /\ pc = "ready"
    /\ \E p \in UpdatePairs \cup (BadShapes \X BadShapes) :
       \E rs \in Lists(RoleNames, MaxRoles), sz \in BOOLEAN, iu \in BOOLEAN :
          call = [entity |-> p[1], incomingEntity |-> p[2], roles |-> rs,
                  skipZeroVals |-> sz, ignoreUnsettables |-> iu]
    /\ ret = NoRet

CallUpdateStructFields ==
    /\ pc = "ready"
    /\ pc' = "done"
    /\ LET r == UpdateStructFields(call.entity, call.incomingEntity, call.roles,
                                   call.skipZeroVals, call.ignoreUnsettables)
       IN ret' = [fn |-> "UpdateStructFields", err |-> r.err,
                  updatedFields |-> r.updatedFields,
                  unsettableFields |-> r.unsettableFields,
                  entity |-> r.entity]
    /\ UNCHANGED call

NextUpdate == CallUpdateStructFields

SpecUpdate == InitUpdate /\ [][NextUpdate]_vars

-----------------------------------------------------------------------------
(* The round trip: FilterStructTo(source, dest, roles, true), struccy.go   *)
(* 261-344, and then MergeStructUpdateTo(dest, source, roles), 65-129, on  *)
(* the record the filter filled.                                           *)

\* the source and the destination are records of one type with different
\* contents
InitRoundTrip ==
    /\ pc = "ready"
    /\ \E T \in FieldTypes, tag \in PolicyTags :
       \E s \in StructsOf(RecordType(T, tag), "a", 1),
          d \in StructsOf(RecordType(T, tag), "b", 2) :
       \E rs \in Lists(RoleNames, MaxRoles) :
          call = [sourceStruct |-> s, filteredStruct |-> d, xsList |-> rs]
    /\ ret = NoRet

\* the filter writes into the destination in place
RoundTripFilter ==
    /\ pc = "ready"
    /\ pc' = "filtered"
    /\ LET r == FilterStructTo(call.sourceStruct, call.filteredStruct,
                               call.xsList, TRUE)
       IN ret' = [fn |-> "FilterStructTo", err |-> r.err,
                  filteredStruct |-> r.filteredStruct]
    /\ UNCHANGED call

\* the merge takes the filtered destination as its target and the source
\* as its update
RoundTripMerge ==
    /\ pc = "filtered"
    /\ ret.err = NilErr
    /\ pc' = "done"
    /\ LET r == MergeStructUpdateTo(ret.filteredStruct, call.sourceStruct,
                                    call.xsList)
       IN ret' = [fn |-> "MergeStructUpdateTo", err |-> r.err,
                  filteredStruct |-> ret.filteredStruct,
                  mergedStruct |-> r.mergedStruct]
    /\ UNCHANGED call

NextRoundTrip == RoundTripFilter \/ RoundTripMerge

SpecRoundTrip == InitRoundTrip /\ [][NextRoundTrip]_vars

-----------------------------------------------------------------------------
(* FilterMapFieldsByStructAndRole, struccy.go 702-761, with                *)
(* GetFieldNamesWithWriteXS, 460-480, and isCompatibleType, 763-778.  A    *)
(* json tag is a sequence of symbols, <<"value", ",", "omitempty">>; a     *)
(* generic map is a function from its keys to offered values [typ, v],     *)
(* the nil interface value being the untyped nil.                          *)

\* a field of a reference struct: Field with the json tag
JsonField(name, typ, writexs, json) ==
    [name |-> name, typ |-> typ, readxs |-> writexs, writexs |-> writexs,
     json |-> json]

\* line 718: the first part of the json tag, as a Go string; the names of
\* the model are one symbol long
JsonTag(json) ==
    LET first == Split(json, ",")[1]
    IN IF first = <<>> THEN "" ELSE first[1]

\* GetFieldNamesWithWriteXS without the access test: every field's name
GetFieldNamesIgnoringPolicy(structPtr, xsList) ==
    IF ~IsStructPointer(structPtr)
    THEN [fieldNames |-> <<>>, err |-> Err("ErrInvalidStructPointer", "")]
    ELSE [fieldNames |-> [i \in 1..Len(structPtr.typ) |-> structPtr.typ[i].name],
          err |-> NilErr]

RECURSIVE WriteXSNamesFrom(_, _, _)
\* lines 471-477: the names of the fields from position i on that the
\* roles may write, in declaration order
WriteXSNamesFrom(st, i, xsList) ==
    IF i > Len(st) THEN <<>>
    ELSE (IF IsFieldAccessAllowed(xsList, st[i].writexs)
          THEN <<st[i].name>> ELSE <<>>)
         \o WriteXSNamesFrom(st, i + 1, xsList)

\* GetFieldNamesWithWriteXS, lines 460-480
GetFieldNamesWithWriteXS(structPtr, xsList) ==
    IF ~IsStructPointer(structPtr)
    THEN [fieldNames |-> <<>>, err |-> Err("ErrInvalidStructPointer", "")]
    ELSE [fieldNames |-> WriteXSNamesFrom(structPtr.typ, 1, xsList),
          err |-> NilErr]

\* the key a field is looked up under when the json tag is never read
JsonFieldNameIsGoName(refType, fieldName) == fieldName

\* lines 715-728: the key the field is looked up under.  jsonToFieldName
\* has an entry for a field whose json name is neither empty nor "-"
JsonFieldName(refType, fieldName) ==
    LET jsonTag == JsonTag(refType[FieldIndex(refType, fieldName)].json)
    IN IF jsonTag /= "" /\ jsonTag /= "-" THEN jsonTag ELSE fieldName

\* isCompatibleType that also takes a slice of interfaces for a slice
isCompatibleTypeCoercesSlices(V, T) ==
    \/ AssignableTo(V, T)
    \/ ConvertibleTo(V, T)
    \/ V = <<"slice", "interface">> /\ Kind(T) = "slice"

\* isCompatibleType, lines 763-778
isCompatibleType(V, T) == AssignableTo(V, T) \/ ConvertibleTo(V, T)

RECURSIVE FilterMapLoop(_, _, _, _, _, _, _)
\* lines 724-758 from the i-th allowed name on: the filtered map and the
\* error.  An error returns the nil map
FilterMapLoop(refType, source, names, i, ignoreNils, useJsonFieldNames, filtered) ==
    IF i > Len(names) THEN [filtered |-> filtered, err |-> NilErr]
    ELSE LET fieldName == names[i]
             jsonFieldName == JsonFieldName(refType, fieldName)
             next(m) == FilterMapLoop(refType, source, names, i + 1,
                                      ignoreNils, useJsonFieldNames, m)
         IN IF jsonFieldName \notin DOMAIN source THEN next(filtered)
            ELSE LET fieldVal == source[jsonFieldName]
                     structField == refType[FieldIndex(refType, fieldName)]
                 IN IF Kind(fieldVal.typ) = "nil"
                    THEN IF ignoreNils THEN next(filtered)
                         ELSE [filtered |-> NilMap,
                               err |-> Err("ErrFieldIsNil", fieldName)]
                    ELSE IF ~isCompatibleType(fieldVal.typ, structField.typ)
                    THEN [filtered |-> NilMap,
                          err |-> Err("ErrTypeMismatch", fieldName)]
                    ELSE IF useJsonFieldNames
                    THEN next(MapPut(filtered, jsonFieldName, fieldVal))
                    ELSE next(MapPut(filtered, fieldName, fieldVal))

\* FilterMapFieldsByStructAndRole: the filtered map and the error.  The
\* shape test of lines 709-712 comes after the same test in
\* GetFieldNamesWithWriteXS and never fails
FilterMapFieldsByStructAndRole(referenceStructPointer, source, xsList, ignoreNils, useJsonFieldNames) ==
    LET allowedFieldNames == GetFieldNamesWithWriteXS(referenceStructPointer, xsList)
    IN IF allowedFieldNames.err /= NilErr
       THEN [filtered |-> NilMap, err |-> allowedFieldNames.err]
       ELSE FilterMapLoop(referenceStructPointer.typ, source,
                          allowedFieldNames.fieldNames, 1, ignoreNils,
                          useJsonFieldNames, EmptyMap)

-----------------------------------------------------------------------------
(* FilterMapFieldsByStructAndRole on its own: SpecFilterMap.               *)

\* the json tags of the Value field: none, a name, a name with an option,
\* and the tag that hides the field
JsonTags ==
    {<<>>, <<"value">>, <<"value", ",", "omitempty">>, <<"-">>}

\* the reference struct type: a Name only "admin" may write, known on the
\* wire as "name", and a Value
ReferenceType(T, writexs, json) ==
    <<JsonField("Name", <<"string">>, <<"admin">>, <<"name">>),
      JsonField("Value", T, writexs, json)>>

ReferenceFieldTypes == {<<"string">>, <<"int">>, <<"slice", "string">>}

\* what a source map binds the key "Value" to, by type: strings, numbers,
\* a slice of strings, a slice of interfaces holding strings as a JSON
\* decoder makes it, and the nil interface value
SourceTypes ==
    {<<"string">>, <<"int">>, <<"int8">>, <<"slice", "string">>,
     <<"slice", "interface">>, <<"nil">>}
SourcePayload(V) ==
    CASE Kind(V) = "string" -> "a"
      [] Kind(V) = "int" -> 1
      [] Kind(V) = "int8" -> 5
      [] Kind(V) = "slice" -> <<"a", "b">>
      [] Kind(V) = "nil" -> <<>>

\* what it binds the key "value" to
AliasEntries ==
    {[typ |-> <<"string">>, v |-> "b"], [typ |-> <<"slice", "string">>, v |-> <<"b">>]}

InitFilterMap ==
    /\ pc = "ready"
    /\ \E T \in ReferenceFieldTypes, tag \in {<<"*">>, <<"admin">>},
          json \in JsonTags, badShape \in BOOLEAN,
          V \in SourceTypes, hasValue \in BOOLEAN,
          aliasEntry \in AliasEntries, hasAlias \in BOOLEAN,
          hasName \in BOOLEAN, hasNameAlias \in BOOLEAN, hasDash \in BOOLEAN,
          rs \in Lists(RoleNames, MaxRoles),
          ignoreNils \in BOOLEAN, useJsonFieldNames \in BOOLEAN :
          /\ badShape => (T = <<"string">> /\ json = <<>> /\ ~hasValue /\ ~hasAlias)
          /\ ~hasValue => V = <<"string">>
          /\ ~hasAlias => aliasEntry.typ = <<"string">>
          /\ call = [referenceStructPointer |->
                        [shape |-> IF badShape THEN "struct" ELSE "ptr-struct",
                         typ |-> ReferenceType(T, tag, json),
                         val |-> [Name |-> "n", Value |-> Zero(T)]],
                     source |->
                        WithEntry(
                        WithEntry(
                        WithEntry(
                        WithEntry(
                        WithEntry(<<>>,
                           hasDash, "-", [typ |-> <<"string">>, v |-> "d"]),
                           hasNameAlias, "name", [typ |-> <<"string">>, v |-> "m"]),
                           hasName, "Name", [typ |-> <<"string">>, v |-> "n"]),
                           hasAlias, "value", aliasEntry),
                           hasValue, "Value", [typ |-> V, v |-> SourcePayload(V)]),
                     xsList |-> rs, ignoreNils |-> ignoreNils,
                     useJsonFieldNames |-> useJsonFieldNames]
    /\ ret = NoRet

\* the call reads the reference struct and the source map and writes
\* neither
CallFilterMapFieldsByStructAndRole ==
    /\ pc = "ready"
    /\ pc' = "done"
    /\ LET r == FilterMapFieldsByStructAndRole(call.referenceStructPointer,
                    call.source, call.xsList, call.ignoreNils,
                    call.useJsonFieldNames)
       IN ret' = [fn |-> "FilterMapFieldsByStructAndRole", err |-> r.err,
                  filtered |-> r.filtered,
                  referenceStructPointer |-> call.referenceStructPointer,
                  source |-> call.source]
    /\ UNCHANGED call

NextFilterMap == CallFilterMapFieldsByStructAndRole

SpecFilterMap == InitFilterMap /\ [][NextFilterMap]_vars

-----------------------------------------------------------------------------
(* Claims about the access evaluator.                                      *)

\* the comma-separated tokens of a tag, stated on the string itself: the
\* maximal comma-free stretches between two commas or string ends
Tokens(tag) ==
    {SubSeq(tag, i, j) : <<i, j>> \in
        {p \in (1..Len(tag) + 1) \X (0..Len(tag)) :
            /\ p[2] >= p[1] - 1
            /\ p[1] = 1 \/ tag[p[1] - 1] = ","
            /\ p[2] = Len(tag) \/ tag[p[2] + 1] = ","
            /\ \A k \in p[1]..p[2] : tag[k] /= ","}}

\* the roles of a role list, as a set
RoleSet(rs) == {rs[i] : i \in 1..Len(rs)}

\* the roles some negated token of the tag names
NegatedRoles(tag) == {Tail(t) : t \in {u \in Tokens(tag) : HasPrefix(u, "!")}}

\* a call has answered an access query for call.tagValue and call.roles
Answered ==
    /\ pc = "done"
    /\ \/ ret.fn = "IsFieldAccessAllowed"
       \/ ret.fn = "IsAllowedToSetField" /\ ret.fieldName = "Field1"

\* C1: whenever the tag contains a negated token !x and the role list
\* contains x, access is denied, whatever the other tokens and roles are
\* and in whatever order they come.
C1_NegatedRoleVetoes ==
    Answered /\ RoleSet(call.roles) \cap NegatedRoles(call.tagValue) /= {}
        => ret.allowed = FALSE

\* C1 witness: a vetoed role that comes second, after a role the tag
\* names directly in an earlier token
C1_Witness ==
    /\ Answered
    /\ call.roles = <<(<<"admin">>), (<<"user">>)>>
    /\ call.tagValue = <<"admin", ",", "!", "user">>
    /\ ret.allowed = FALSE

\* a tag made only of plain role names: no "*" token, no negated token
PlainTag(tag) == \A t \in Tokens(tag) : t /= <<"*">> /\ ~HasPrefix(t, "!")

\* C2: for a tag of plain role names access is allowed exactly when one
\* of the caller's roles equals one of the tokens, and a field name the
\* entity does not have is never allowed.
C2_PlainTagMatchesExactly ==
    /\ Answered /\ PlainTag(call.tagValue)
         => (ret.allowed <=> RoleSet(call.roles) \cap Tokens(call.tagValue) /= {})
    /\ pc = "done" /\ ret.fn = "IsAllowedToSetField"
            /\ ret.fieldName = "InvalidField"
         => ret.allowed = FALSE

\* C2 witness: the second role matches the second token
C2_Witness ==
    /\ Answered
    /\ call.roles = <<(<<"!", "user">>), (<<"user">>)>>
    /\ call.tagValue = <<"admin", ",", "user">>
    /\ ret.allowed = TRUE

C5_EmptyTagDeniesAll ==
    Answered /\ call.tagValue = <<>> => ret.allowed = FALSE

-----------------------------------------------------------------------------
(* Claims about FilterStructTo.                                            *)

\* FilterStructTo has returned
Filtered == pc = "done" /\ ret.fn = "FilterStructTo"

\* the fields of the filtered struct that the source struct has too
SharedFields(a, b) ==
    {i \in 1..Len(b.typ) : b.typ[i].name \in FieldNames(a.typ)}

\* the type of the source field with the name of filtered field i
SourceType(i) ==
    LET name == call.filteredStruct.typ[i].name IN
    call.sourceStruct.typ[FieldIndex(call.sourceStruct.typ, name)].typ

\* the payload of the source field with the name of filtered field i
SourceValue(i) == call.sourceStruct.val[call.filteredStruct.typ[i].name]

\* the payload of filtered field i before and after the call
FilteredBefore(i) == call.filteredStruct.val[call.filteredStruct.typ[i].name]
FilteredAfter(i) == ret.filteredStruct.val[call.filteredStruct.typ[i].name]

\* C6: a destination field whose read policy denies the caller never
\* receives the source value, whatever the two field types: after a call
\* that returned no error it is zero when zeroDisallowed is set and holds
\* its prior value otherwise.
C6_DeniedFieldNeverCopied ==
    Filtered /\ ret.err = NilErr
        => \A i \in SharedFields(call.sourceStruct, call.filteredStruct) :
              LET f == call.filteredStruct.typ[i] IN
              ~IsFieldAccessAllowed(call.xsList, f.readxs)
                 => FilteredAfter(i) =
                       IF call.zeroDisallowed THEN Zero(f.typ) ELSE FilteredBefore(i)

\* C7: filtering a record into a record of the same type with every field
\* readable and zeroDisallowed false returns no error and leaves the
\* destination equal to the source, whatever the destination held.
C7_FullAccessCopiesRecord ==
    /\ Filtered
    /\ IsStructPointer(call.sourceStruct)
    /\ call.sourceStruct.typ = call.filteredStruct.typ
    /\ ~call.zeroDisallowed
    /\ \A i \in 1..Len(call.filteredStruct.typ) :
          IsFieldAccessAllowed(call.xsList, call.filteredStruct.typ[i].readxs)
    => /\ ret.err = NilErr
       /\ ret.filteredStruct.val = call.sourceStruct.val

\* C7 witness: a nil source pointer replaces a non-nil destination pointer
C7_Witness ==
    /\ Filtered
    /\ call.sourceStruct.typ = call.filteredStruct.typ
    /\ ~call.zeroDisallowed
    /\ call.xsList = <<(<<"admin">>)>>
    /\ call.filteredStruct.typ[2].typ = <<"ptr", "string">>
    /\ call.filteredStruct.typ[2].readxs = <<"admin", ",", "user">>
    /\ call.sourceStruct.val["Value"] = <<>>
    /\ call.filteredStruct.val["Value"] = <<"b">>
    /\ ret.err = NilErr
    /\ ret.filteredStruct.val = call.sourceStruct.val

\* the call did not fail on filtered field i
NoErrorOn(i) == ret.err.field /= call.filteredStruct.typ[i].name

\* the call got past filtered field i
Passed(i) ==
    \/ ret.err = NilErr
    \/ \E j \in 1..Len(call.filteredStruct.typ) :
          j > i /\ ret.err.field = call.filteredStruct.typ[j].name

\* what C8 says of filtered field i when its type is T: a non-nil source
\* of type *T arrives dereferenced, a source whose pointer type is *T
\* when dereferenced once arrives wrapped in a fresh pointer
TransfersAcrossPointer(i) ==
    LET fT == call.filteredStruct.typ[i].typ
        sT == SourceType(i)
    IN /\ (sT = PtrTo(fT) /\ ~IsNil(SourceValue(i))
            => NoErrorOn(i) /\ (Passed(i) => FilteredAfter(i) = Deref(SourceValue(i))))
       /\ (fT = PtrTo(sT)
            => NoErrorOn(i) /\ (Passed(i) => FilteredAfter(i) = NewPtr(SourceValue(i))))

\* C8 as claimed: same-named fields that differ by one pointer level are
\* transferred without error, for every type T.
C8_OnePointerLevelTransfers ==
    Filtered /\ IsStructPointer(call.sourceStruct)
        => \A i \in SharedFields(call.sourceStruct, call.filteredStruct) :
              TransfersAcrossPointer(i)

\* C8 amended: same-named fields that differ by one pointer level are
\* transferred without error when the type without that pointer is not
\* itself a pointer type (*T into T and T into *T for a non-pointer T,
\* including *[]E into []E).
C8_OnePointerLevelOverNonPointer ==
    Filtered /\ IsStructPointer(call.sourceStruct)
        => \A i \in SharedFields(call.sourceStruct, call.filteredStruct) :
              LET fT == call.filteredStruct.typ[i].typ
                  sT == SourceType(i)
              IN Kind(fT) /= "ptr" \/ Kind(sT) /= "ptr"
                    => TransfersAcrossPointer(i)

\* C8 witness: a pointer to a slice has arrived in a slice field, and
\* (second disjunct) a string has arrived in a pointer field
C8_Witness ==
    /\ Filtered
    /\ ret.err = NilErr
    /\ \/ /\ SourceType(2) = <<"ptr", "slice", "string">>
          /\ call.filteredStruct.typ[2].typ = <<"slice", "string">>
          /\ SourceValue(2) = << <<"a", "b">> >>
          /\ FilteredAfter(2) = <<"a", "b">>
       \/ /\ SourceType(2) = <<"string">>
          /\ call.filteredStruct.typ[2].typ = <<"ptr", "string">>
          /\ FilteredAfter(2) = <<"a">>

-----------------------------------------------------------------------------
(* Claims about MergeStructUpdateTo.                                       *)

\* MergeStructUpdateTo has returned or panicked on structs
Merged ==
    /\ pc = "done" /\ ret.fn = "MergeStructUpdateTo"
    /\ IsStructPointer(call.targetStruct) /\ IsStructPointer(call.updateStruct)

\* the update fields that the target struct has too
UpdateFields ==
    {i \in 1..Len(call.updateStruct.typ) :
        call.updateStruct.typ[i].name \in FieldNames(call.targetStruct.typ)}

\* the type of the target field with the name of update field i
TargetType(i) ==
    LET name == call.updateStruct.typ[i].name IN
    call.targetStruct.typ[FieldIndex(call.targetStruct.typ, name)].typ

\* update field i: its name, its payload, whether the caller may write it
UpdateName(i) == call.updateStruct.typ[i].name
UpdateValue(i) == call.updateStruct.val[UpdateName(i)]
WriteAllowed(i) == IsFieldAccessAllowed(call.xsList, call.updateStruct.typ[i].writexs)

\* the update type is compatible with the target type: assignable, once a
\* pointer on one side only is taken off
TypeCompatible(uT, tT) ==
    IF Kind(uT) = "ptr" /\ Kind(tT) /= "ptr" THEN AssignableTo(Elem(uT), tT)
    ELSE IF Kind(uT) /= "ptr" /\ Kind(tT) = "ptr" THEN AssignableTo(uT, Elem(tT))
    ELSE AssignableTo(uT, tT)

\* the payload the target field is to hold after update field i is applied
MergedValue(i) ==
    LET uT == call.updateStruct.typ[i].typ
        tT == TargetType(i)
    IN IF Kind(uT) = "ptr" /\ Kind(tT) /= "ptr" THEN Deref(UpdateValue(i))
       ELSE IF Kind(uT) /= "ptr" /\ Kind(tT) = "ptr" THEN NewPtr(UpdateValue(i))
       ELSE UpdateValue(i)

\* C9: the write policy is applied per field: a denied update field
\* raises no error and the merged result keeps the target's value; an
\* allowed update field with a non-nil, type-compatible value raises no
\* error and the merged result holds the update's value, dereferenced when
\* the update field is a pointer and the target field is not.
C9_MergeAppliesPolicyPerField ==
    Merged =>
        \A i \in UpdateFields :
           LET uT == call.updateStruct.typ[i].typ
               name == UpdateName(i)
           IN /\ ~WriteAllowed(i)
                 => /\ ret.err.field /= name
                    /\ ret.err = NilErr
                          => ret.mergedStruct.val[name] = call.targetStruct.val[name]
              /\ WriteAllowed(i) /\ TypeCompatible(uT, TargetType(i))
                   /\ (Kind(uT) = "ptr" => ~IsNil(UpdateValue(i)))
                 => /\ ret.err.field /= name
                    /\ ret.err = NilErr
                          => ret.mergedStruct.val[name] = MergedValue(i)

\* C9, for update fields of the kinds the call accepts: as stated above,
\* except that an allowed, compatible update field of chan, func or
\* interface kind is not held to raise no error.
C9_MergeAppliesPolicyToAcceptedKinds ==
    Merged =>
        \A i \in UpdateFields :
           LET uT == call.updateStruct.typ[i].typ
               name == UpdateName(i)
           IN /\ ~WriteAllowed(i)
                 => /\ ret.err.field /= name
                    /\ ret.err = NilErr
                          => ret.mergedStruct.val[name] = call.targetStruct.val[name]
              /\ WriteAllowed(i) /\ TypeCompatible(uT, TargetType(i))
                   /\ Kind(uT) \notin UnsupportedKinds
                   /\ (Kind(uT) = "ptr" => ~IsNil(UpdateValue(i)))
                 => /\ ret.err.field /= name
                    /\ ret.err = NilErr
                          => ret.mergedStruct.val[name] = MergedValue(i)

\* C9 witness: one merge in which Name was denied and kept and the
\* pointer in Value was allowed and arrived dereferenced
C9_Witness ==
    /\ Merged
    /\ ret.err = NilErr
    /\ call.xsList = <<(<<"user">>)>>
    /\ call.updateStruct.typ[1].typ = <<"ptr", "string">>
    /\ call.updateStruct.typ[1].writexs = <<"admin", ",", "user">>
    /\ TargetType(1) = <<"string">>
    /\ call.updateStruct.val["Value"] = <<"a">>
    /\ call.targetStruct.val["Value"] = "b"
    /\ ret.mergedStruct.val["Value"] = "a"
    /\ ret.mergedStruct.val["Name"] = "b"

\* C10: a write-allowed update field whose type is incompatible with the
\* target field's fails the whole call with the field-type-mismatch error
\* (no crash, no silent pass), also when the update field is a non-nil
\* pointer to another type.  It is stated of the first such field, the
\* fields before it being denied or compatible.
C10_MismatchIsAnError ==
    Merged =>
        \A i \in UpdateFields :
           /\ WriteAllowed(i)
           /\ ~TypeCompatible(call.updateStruct.typ[i].typ, TargetType(i))
           /\ \A j \in 1..(i - 1) :
                 \/ ~WriteAllowed(j)
                 \/ TypeCompatible(call.updateStruct.typ[j].typ, TargetType(j))
           => ret.err = Err("ErrFieldTypeMismatch", UpdateName(i))

\* C11: a write-allowed update field holding a nil pointer sets the field
\* of that name in the merged result to the zero value of its type.
C11_NilPointerZeroesField ==
    (Merged /\ ret.err = NilErr) =>
        \A i \in UpdateFields :
           /\ WriteAllowed(i)
           /\ Kind(call.updateStruct.typ[i].typ) = "ptr"
           /\ IsNil(UpdateValue(i))
           => ret.mergedStruct.val[UpdateName(i)] = Zero(TargetType(i))

\* the update fields before field i raise no error of their own: each is
\* denied, or compatible and of an accepted kind
EarlierFieldsPass(i) ==
    \A j \in 1..(i - 1) :
       \/ ~WriteAllowed(j)
       \/ /\ TypeCompatible(call.updateStruct.typ[j].typ, TargetType(j))
          /\ Kind(call.updateStruct.typ[j].typ) \notin UnsupportedKinds

\* update field i is of chan, func or interface kind
UnsupportedField(i) == Kind(call.updateStruct.typ[i].typ) \in UnsupportedKinds

-----------------------------------------------------------------------------
(* Claims about SetField.                                                  *)

\* a call of SetField has returned, or panicked
SetDone == pc = "done" /\ ret.fn = "SetField"

\* the declaration of the field the call names, in an entity that has it
NamedField == call.entity.typ[FieldIndex(call.entity.typ, call.fieldName)]

\* the call names the Value field of a pointer to a struct
WritesValue == IsStructPointer(call.entity) /\ call.fieldName = "Value"

\* the offered value is neither the untyped nil nor a nil pointer
OfferedNonNil ==
    /\ Kind(call.value.typ) /= "nil"
    /\ Kind(call.value.typ) = "ptr" => ~IsNil(call.value.v)

\* a value of type V is compatible with a field of type T: assignable, or
\* assignable once one pointer is taken off either side, or a number a
\* field of an integer or float kind accepts (integer for integer, float
\* for float, integer for float)
Coercible(V, T) ==
    \/ AssignableTo(V, T)
    \/ Kind(V) = "ptr" /\ AssignableTo(Elem(V), T)
    \/ Kind(T) = "ptr" /\ AssignableTo(V, Elem(T))
    \/ Kind(V) \in IntKinds /\ Kind(T) \in IntKinds \cup FloatKinds
    \/ Kind(V) \in FloatKinds /\ Kind(T) \in FloatKinds

\* C3: under the tag "*" the access check allows every role list, the
\* empty one included, and SetField on a field whose writexs is "*"
\* returns no error for every non-nil value of a compatible type, whatever
\* the roles of the caller.
C3_WildcardWriteSucceeds ==
    (SetDone /\ WritesValue /\ NamedField.writexs = <<"*">>) =>
        /\ IsFieldAccessAllowed(call.roles, NamedField.writexs)
        /\ (OfferedNonNil /\ Coercible(call.value.typ, NamedField.typ)) =>
              ret.err = NilErr

\* the caller's roles may write the field the call names
Authorized ==
    IsAllowedToSetField(call.entity.typ, call.fieldName, call.roles)

\* C14, of SetField: an int8 offered to an int field the caller may write
\* returns no error and the field afterwards holds the same number.
C14_Int8IntoIntSucceeds ==
    ( /\ SetDone /\ WritesValue /\ Authorized
      /\ NamedField.typ = <<"int">>
      /\ call.value.typ = <<"int8">>
      /\ call.value.v /= 0 )
    => /\ ret.err = NilErr
       /\ ret.entity.val["Value"] = call.value.v

\* C16: SetField checks the shape, then the field's existence, then the
\* authorization: an entity that is no pointer to a struct yields
\* ErrInvalidStructPointer; a name the struct has no field of yields
\* ErrInvalidFieldName; an existing field whose writexs denies the roles
\* yields ErrUnauthorizedFieldSet; in each case the entity is left as it
\* was, whatever value is offered, zero and nil values included.
C16_ShapeThenNameThenAuthorization ==
    SetDone =>
        /\ ~IsStructPointer(call.entity)
              => ret.err = Err("ErrInvalidStructPointer", "")
        /\ IsStructPointer(call.entity)
              /\ call.fieldName \notin FieldNames(call.entity.typ)
              => ret.err = Err("ErrInvalidFieldName", "")
        /\ IsStructPointer(call.entity)
              /\ call.fieldName \in FieldNames(call.entity.typ)
              /\ ~Authorized
              => ret.err = Err("ErrUnauthorizedFieldSet", "")
        /\ ret.err.kind \in {"ErrInvalidStructPointer", "ErrInvalidFieldName",
                              "ErrUnauthorizedFieldSet"}
              => ret.entity = call.entity

\* C16 witness: "user" offered the untyped nil to Value, which only
\* "admin" may write, and was refused
C16_Witness ==
    /\ SetDone /\ WritesValue
    /\ call.roles = <<(<<"user">>)>>
    /\ NamedField.writexs = <<"admin">>
    /\ Kind(call.value.typ) = "nil"
    /\ ret.err = Err("ErrUnauthorizedFieldSet", "")
    /\ ret.entity = call.entity

\* the offered value is the untyped nil, a nil pointer, or the zero value
\* of its type
OfferedNilOrZero ==
    \/ Kind(call.value.typ) = "nil"
    \/ Kind(call.value.typ) = "ptr" /\ IsNil(call.value.v)
    \/ Kind(call.value.typ) /= "nil" /\ IsZero(call.value.typ, call.value.v)

\* C17: for a field the caller may write, SetField with an untyped nil, a
\* nil pointer or a zero value returns no error and leaves the entity as
\* it was, whatever skipZeroVals is.
C17_NilOrZeroIsNoOp ==
    (SetDone /\ WritesValue /\ Authorized /\ OfferedNilOrZero)
    => /\ ret.err = NilErr
       /\ ret.entity = call.entity

\* C18: for a field the caller may write, a non-nil *T offered to a field
\* of type T returns no error and stores the pointed-to value, and a
\* non-zero T offered to a field of type *T returns no error and stores a
\* pointer to an equal value.
C18_OnePointerLevelReconciled ==
    (SetDone /\ WritesValue /\ Authorized) =>
        /\ ( /\ call.value.typ = PtrTo(NamedField.typ)
             /\ ~IsNil(call.value.v) )
           => /\ ret.err = NilErr
              /\ ret.entity.val["Value"] = Deref(call.value.v)
        /\ ( /\ NamedField.typ = PtrTo(call.value.typ)
             /\ ~IsZero(call.value.typ, call.value.v) )
           => /\ ret.err = NilErr
              /\ ret.entity.val["Value"] = NewPtr(call.value.v)

\* the errors setReflectField reports a value it cannot coerce with
CoercionErrors ==
    {"ErrInvalidFieldType", "ErrInvalidPtrType", "ErrInvalidFieldValue"}

\* the offered type is foreign to the field type: not assignable to it, no
\* pointer to a type assignable to it, and no number offered to a numeric
\* field
ForeignType(V, T) ==
    /\ ~AssignableTo(V, T)
    /\ ~(Kind(V) = "ptr" /\ AssignableTo(Elem(V), T))
    /\ ~(Kind(V) \in IntKinds \cup FloatKinds /\ Kind(T) \in IntKinds \cup FloatKinds)

\* C19: for a field the caller may write and a non-nil, non-zero value of
\* a type foreign to the field's, SetField returns a coercion error; it
\* does not return nil.
C19_ForeignTypeIsAnError ==
    ( /\ SetDone /\ WritesValue /\ Authorized
      /\ ~OfferedNilOrZero
      /\ ForeignType(call.value.typ, NamedField.typ) )
    => ret.err.kind \in CoercionErrors

\* C20: for a field of a numeric kind that the caller may write, a
\* non-nil *int8 returns no error and the field afterwards holds the
\* pointed-to number (as a float64 in a float64 field).
C20_PointerToInt8IntoNumericField ==
    ( /\ SetDone /\ WritesValue /\ Authorized
      /\ call.value.typ = <<"ptr", "int8">>
      /\ ~IsNil(call.value.v)
      /\ Kind(NamedField.typ) \in IntKinds \cup FloatKinds )
    => /\ ret.err = NilErr
       /\ ret.entity.val["Value"]
             = Convert(Deref(call.value.v), <<"int8">>, NamedField.typ)

\* C29: whenever SetField returns an error, the entity is as it was
\* before the call: the addressed field holds the value it held.
C29_ErrorLeavesEntityUnchanged ==
    (SetDone /\ ret.err.kind \notin {"nil", "panic"})
    => ret.entity = call.entity

-----------------------------------------------------------------------------
(* Claims about MergeMapStringFieldsToStruct.                              *)

\* a call of MergeMapStringFieldsToStruct has returned, or panicked
MapMerged == pc = "done" /\ ret.fn = "MergeMapStringFieldsToStruct"

\* the call was given a pointer to a struct and a map with a Value entry
MapWritesValue ==
    MapMerged /\ IsStructPointer(call.targetStruct)
              /\ "Value" \in DOMAIN call.updateMap

\* the declared type of the target's Value field, and the map's Value entry
MapValueType == call.targetStruct.typ[FieldIndex(call.targetStruct.typ, "Value")].typ
MapValueEntry == call.updateMap["Value"]

C15_FloatIntoIntRefused ==
    ( /\ MapWritesValue
      /\ MapValueType = <<"int">>
      /\ MapValueEntry.typ = <<"float64">>
      /\ TruncFloat(MapValueEntry.v) * 10 /= MapValueEntry.v )
    => /\ ret.err /= NilErr
       /\ ret.target.val["Value"] = call.targetStruct.val["Value"]

\* the call returned an error (it did not panic) on a pointer to a struct
MapFailed ==
    /\ MapMerged /\ IsStructPointer(call.targetStruct)
    /\ ret.err.kind \notin {"nil", "panic"}

\* the position in the order of the range of the key the error names
FailedAt(k) == k \in 1..Len(ret.keys) /\ ret.keys[k] = ret.err.field

\* the target has a field named by the key at position j of the range
KeyIsField(j) == ret.keys[j] \in FieldNames(call.targetStruct.typ)

\* the map value under the key at position j, and the type of its field
KeyEntry(j) == call.updateMap[ret.keys[j]]
KeyFieldType(j) ==
    call.targetStruct.typ[FieldIndex(call.targetStruct.typ, ret.keys[j])].typ

\* C27: when the assignment for a key fails, the call returns no struct
\* and an error naming that key; the target keeps what was assigned for
\* the keys ranged over before it (an assignable value is in its field),
\* and the fields of the keys after it hold what they held before the
\* call.
C27_MapMergeAppliesPartially ==
    MapFailed =>
        /\ ret.result = NilStruct
        /\ \E k \in 1..Len(ret.keys) : FailedAt(k)
        /\ \A k \in 1..Len(ret.keys) : FailedAt(k) =>
              /\ \A j \in 1..(k - 1) :
                    (KeyIsField(j) /\ AssignableTo(KeyEntry(j).typ, KeyFieldType(j)))
                    => ret.target.val[ret.keys[j]] = KeyEntry(j).v
              /\ \A j \in (k + 1)..Len(ret.keys) :
                    KeyIsField(j)
                    => ret.target.val[ret.keys[j]]
                          = call.targetStruct.val[ret.keys[j]]

\* C27 witness: Name was ranged over first and holds the map's "n"; the
\* assignment for Value then failed
C27_Witness ==
    /\ MapFailed
    /\ ret.keys = <<"Name", "Value">>
    /\ ret.err.field = "Value"
    /\ call.targetStruct.val["Name"] = "a"
    /\ ret.target.val["Name"] = "n"
    /\ ret.target.val["Value"] = call.targetStruct.val["Value"]
    /\ ret.result = NilStruct

-----------------------------------------------------------------------------
(* Claims about UpdateStructFields.                                        *)

\* a call of UpdateStructFields on two pointers to structs is over
Updated ==
    /\ pc = "done" /\ ret.fn = "UpdateStructFields"
    /\ IsStructPointer(call.entity) /\ IsStructPointer(call.incomingEntity)

\* the names of the entity's fields, and those the incoming struct has too
EntityNames == FieldNames(call.entity.typ)
CommonNames == EntityNames \cap FieldNames(call.incomingEntity.typ)

\* the declared type of the entity's field name, the incoming field's
\* value as the call reads it, and whether the roles may write the field
EntityFieldType(name) ==
    call.entity.typ[FieldIndex(call.entity.typ, name)].typ
IncomingValue(name) ==
    [typ |-> call.incomingEntity.typ[FieldIndex(call.incomingEntity.typ, name)].typ,
     v |-> call.incomingEntity.val[name]]
MayWrite(name) == IsAllowedToSetField(call.entity.typ, name, call.roles)

\* the names recorded in a returned map
Recorded(m) == DOMAIN m.entries

\* C21: fields are matched by name, not by position.  After a call that
\* returned no error, every field in both structs that the roles may
\* write and whose incoming value is non-zero and of a type assignable to
\* the entity field's holds the incoming value and is in updatedFields,
\* whatever the incoming struct's type and the positions of its fields;
\* a field absent from the incoming struct or denied keeps its value.
C21_FieldsMatchedByName ==
    (Updated /\ ret.err = NilErr) =>
        \A name \in EntityNames :
           /\ ( /\ name \in CommonNames /\ MayWrite(name)
                /\ ~IsZero(IncomingValue(name).typ, IncomingValue(name).v)
                /\ AssignableTo(IncomingValue(name).typ, EntityFieldType(name)) )
              => /\ ret.entity.val[name] = IncomingValue(name).v
                 /\ name \in Recorded(ret.updatedFields)
           /\ (name \notin CommonNames \/ ~MayWrite(name))
              => ret.entity.val[name] = call.entity.val[name]

\* the set of the entity's field name from the incoming struct fails: the
\* field is in both structs, the roles may write it, and SetField returns
\* an error for the incoming value
SetFails(name) ==
    /\ name \in CommonNames /\ MayWrite(name)
    /\ SetField(call.entity, name, IncomingValue(name), call.skipZeroVals,
                call.roles).err.kind \notin {"nil", "panic"}

\* the position of a field in the entity's struct type
Position(name) == FieldIndex(call.entity.typ, name)

\* name is the first of the entity's fields whose set fails
FirstFailing(name) ==
    /\ SetFails(name)
    /\ \A other \in EntityNames :
          SetFails(other) => Position(name) <= Position(other)

\* C22: with ignoreUnsettables false the call stops at the first field
\* whose set fails: it returns that error, the field is in
\* unsettableFields, the fields before it keep their new values and the
\* fields after it are unchanged; with ignoreUnsettables true the call
\* goes through every field, unsettableFields holds exactly the fields
\* whose set fails, and the error is nil.
C22_StopsAtFirstFailureUnlessIgnored ==
    (Updated /\ ret.err.kind /= "panic") =>
        /\ ~call.ignoreUnsettables =>
              \A name \in EntityNames : FirstFailing(name) =>
                 /\ ret.err /= NilErr
                 /\ name \in Recorded(ret.unsettableFields)
                 /\ \A other \in EntityNames :
                       /\ ( /\ Position(other) < Position(name)
                            /\ other \in CommonNames /\ MayWrite(other)
                            /\ ~IsZero(IncomingValue(other).typ,
                                       IncomingValue(other).v)
                            /\ AssignableTo(IncomingValue(other).typ,
                                            EntityFieldType(other)) )
                          => ret.entity.val[other] = IncomingValue(other).v
                       /\ Position(other) > Position(name)
                          => ret.entity.val[other] = call.entity.val[other]
        /\ call.ignoreUnsettables =>
              /\ ret.err = NilErr
              /\ Recorded(ret.unsettableFields)
                    = {name \in EntityNames : SetFails(name)}

\* the entity field of type T holds x, and x is the recorded value v of
\* type V: the same value, the value v points to, or the same number
HoldsRecorded(T, x, V, v) ==
    IF AssignableTo(V, T) THEN x = v
    ELSE IF Kind(V) = "ptr" /\ AssignableTo(Elem(V), T) /\ ~IsNil(v)
    THEN x = Deref(v)
    ELSE /\ Kind(V) \in IntKinds \cup FloatKinds
         /\ Kind(T) \in IntKinds \cup FloatKinds
         /\ x = Convert(v, V, T)

\* C30: after a call that returned no error the two maps say what was
\* changed: every name in updatedFields has its entity field equal to the
\* value recorded for it, every name in unsettableFields has its entity
\* field unchanged, no name is in both maps, and no entity field outside
\* updatedFields has changed.
C30_MapsDescribeTheChange ==
    (Updated /\ ret.err = NilErr) =>
        /\ \A name \in Recorded(ret.updatedFields) :
              HoldsRecorded(EntityFieldType(name), ret.entity.val[name],
                            ret.updatedFields.entries[name].typ,
                            ret.updatedFields.entries[name].v)
        /\ \A name \in Recorded(ret.unsettableFields) :
              ret.entity.val[name] = call.entity.val[name]
        /\ Recorded(ret.updatedFields) \cap Recorded(ret.unsettableFields) = {}
        /\ \A name \in EntityNames \ Recorded(ret.updatedFields) :
              ret.entity.val[name] = call.entity.val[name]

-----------------------------------------------------------------------------
(* The round trip of FilterStructTo and MergeStructUpdateTo.               *)

RoundTripDone == pc = "done" /\ ret.fn = "MergeStructUpdateTo" /\ "filteredStruct" \in DOMAIN ret

\* the fields of the record the roles may both read and write
ReadWritable ==
    {i \in 1..Len(call.sourceStruct.typ) :
        /\ IsFieldAccessAllowed(call.xsList, call.sourceStruct.typ[i].readxs)
        /\ IsFieldAccessAllowed(call.xsList, call.sourceStruct.typ[i].writexs)}

\* C28: the round trip reproduces the source.  For every source and
\* destination of one record type and every role list, the filter with
\* zeroDisallowed = true followed by the merge of the source into the
\* filtered destination, under the same roles, yields a record whose every
\* field that is both readable and writable equals the source's value,
\* whatever the destination held before and also where the source holds a
\* nil pointer.
C28_RoundTripReproducesSource ==
    RoundTripDone =>
        /\ ret.err = NilErr
        /\ \A i \in ReadWritable :
              ret.mergedStruct.val[call.sourceStruct.typ[i].name]
                 = call.sourceStruct.val[call.sourceStruct.typ[i].name]

-----------------------------------------------------------------------------
(* FilterMapFieldsByStructAndRole.                                         *)

FilterMapDone ==
    /\ pc = "done" /\ ret.fn = "FilterMapFieldsByStructAndRole"
    /\ IsStructPointer(call.referenceStructPointer)

\* the reference struct's type and the positions of its fields
RefType == call.referenceStructPointer.typ
RefFields == 1..Len(RefType)

\* whether the roles may write the field at position i, the field's json
\* alias ("" when it has none), the key the field is known under on the
\* wire, and the key its entry of the result has
RefAllowed(i) == IsFieldAccessAllowed(call.xsList, RefType[i].writexs)
Alias(i) == JsonTag(RefType[i].json)
WireKey(i) == IF Alias(i) = "" THEN RefType[i].name ELSE Alias(i)
ResultKey(i) == IF call.useJsonFieldNames THEN WireKey(i) ELSE RefType[i].name

\* the keys that name the field at position i
KeysOf(i) == {RefType[i].name, Alias(i)}

C24_HiddenFieldNeverExposed ==
    (FilterMapDone /\ Alias(2) = "-") =>
        Recorded(ret.filtered) \subseteq KeysOf(1)

\* C25: a field the roles may write is looked up in the source map under
\* its json alias, under its Go name when it has no alias, and its entry
\* of the result is keyed by that wire key when useJsonFieldNames is true
\* and by the Go name when it is false.  Stated for the fields whose json
\* name is not "-".
C25_LookupByAliasResultKeyByFlag ==
    (FilterMapDone /\ ret.err = NilErr) =>
        \A i \in RefFields : Alias(i) /= "-" =>
           /\ ResultKey(i) \in Recorded(ret.filtered)
                 <=> /\ RefAllowed(i)
                     /\ WireKey(i) \in DOMAIN call.source
                     /\ Kind(call.source[WireKey(i)].typ) /= "nil"
           /\ ResultKey(i) \in Recorded(ret.filtered)
                 => ret.filtered.entries[ResultKey(i)] = call.source[WireKey(i)]

\* the source map has different values under "Value" and under the alias
\* "value": the result has the alias's value, under the Go name
C25_Witness ==
    /\ FilterMapDone /\ ret.err = NilErr
    /\ Alias(2) = "value" /\ RefAllowed(2) /\ ~call.useJsonFieldNames
    /\ {"Value", "value"} \subseteq DOMAIN call.source
    /\ call.source["Value"].typ = <<"string">>
    /\ call.source["value"].typ = <<"string">>
    /\ Recorded(ret.filtered) \cap KeysOf(2) = {"Value"}
    /\ ret.filtered.entries["Value"] = call.source["value"]

\* the source map offers a slice of interfaces to the field at position i
OffersUntypedSlice(i) ==
    /\ RefAllowed(i)
    /\ RefType[i].typ = <<"slice", "string">>
    /\ WireKey(i) \in DOMAIN call.source
    /\ call.source[WireKey(i)].typ = <<"slice", "interface">>

\* C26: a slice of interfaces offered to a field declared a slice of
\* strings fails the whole call with the type mismatch error naming the
\* field, and the map returned is nil, also when every element is a
\* string.  No field before Value fails in this model.
C26_UntypedSliceNeverCoerced ==
    FilterMapDone =>
        \A i \in RefFields : OffersUntypedSlice(i) =>
           /\ ret.err = Err("ErrTypeMismatch", RefType[i].name)
           /\ ret.filtered = NilMap

\* the slice of interfaces holds strings only, and the call fails
C26_Witness ==
    /\ FilterMapDone /\ OffersUntypedSlice(2)
    /\ call.source[WireKey(2)].v = <<"a", "b">>
    /\ DOMAIN call.source = {WireKey(2), "name"} /\ RefAllowed(1)
    /\ ret.err.kind = "ErrTypeMismatch"

=============================================================================
